---- MODULE Spec2Model ----
(***************************************************************************)
(* Model of iqlFunctions.js: the memoize() wrapper (an expiring, bounded   *)
(* cache persisted as one JSON blob under the key "_cache" of the document *)
(* cache), the two wrappers MEMOIZED_IQL / MEMOIZED_IQL_LIST built from it *)
(* at script load, and the Insight attribute resolver behind them.         *)
(***************************************************************************)
EXTENDS Integers, Sequences, FiniteSets, TLC

VARIABLES
    store,   \* value held by CacheService under "_cache": Null or the JSON blob
    now,     \* Date.now()
    pc,      \* per script execution: "new" | "half" | "run"
    wr,      \* per execution and wrapper: the closure's _cache, _limit, _time
    last,    \* record of the operation performed by the latest step
    steps,   \* number of operations performed so far
    req,     \* resolver: the entry-point call being evaluated and the service
    res      \* resolver: the entry point called and what it produced

vars == <<store, now, pc, wr, last, steps, req, res>>

--------------------------------------------------------------------------
\* Bounds of the model.

\* Number of operations in a run of one execution at a time.
MaxSteps == 4
\* Number of operations in a run of concurrent executions.
MaxStepsConc == 3
\* Largest clock value.
MaxTime == 2

\* Clock units that pass while fn runs (the HTTP requests of the resolver).
FnDurations == {0, 1}

\* Script executions that may be alive at the same time.
Execs == {"e1", "e2"}
\* The two wrappers every execution builds (lines 219-220).
Wrappers == {"IQL", "LIST"}

\* JavaScript's undefined and null.
Undefined == "<undefined>"
Null == "<null>"

\* Argument lists the entry points are called with.
ArgLists ==
    { <<"q1", "Owner", "Server", "10">>,
      <<"q2", "Owner", "Server", "10">> }

\* Arguments handed to limit() / expire(): typed JavaScript values.
Num(n) == [type |-> "number", val |-> n]
Str(n) == [type |-> "string", val |-> n]
ConfigInputs == { Num(1), Str(1) }

\* let _limit = 1000, _time = 1000*60*60*24
DefaultLimit == 1000
DefaultTime == 1000 * 60 * 60 * 24

--------------------------------------------------------------------------
\* Values and JSON.

\* JavaScript truthiness of the values a wrapped function returns here
\* (strings and undefined): the operand test of `get(key) || set(...)`.
Truthy(v) == v # Undefined /\ v # "" /\ v # Null

\* const key = JSON.stringify(args): undefined elements of an array are
\* written as null.
StringifyArgs(args) ==
    [i \in DOMAIN args |-> IF args[i] = Undefined THEN Null ELSE args[i]]

\* entry.value / entry.expire of a cached object; a missing property reads
\* as undefined.
ValueOf(obj) == IF "value" \in DOMAIN obj THEN obj.value ELSE Undefined
ExpireOf(obj) == obj.expire

\* JSON.stringify of one cached object {value, expire}: a property whose
\* value is undefined is omitted.
StringifyObj(obj) ==
    IF ValueOf(obj) = Undefined
    THEN [expire |-> obj.expire]
    ELSE [value |-> obj.value, expire |-> obj.expire]

\* JSON.stringify([..._cache.entries()]): the array of [key, object] pairs
\* in Map order.
Stringify(cache) ==
    [i \in DOMAIN cache |-> <<cache[i][1], StringifyObj(cache[i][2])>>]

\* The document cache's slot "_cache": get() answers null until the first
\* put(), afterwards the string last put.
NoBlob == [isNull |-> TRUE, json |-> <<>>]
Blob(json) == [isNull |-> FALSE, json |-> json]

\* new Map(JSON.parse(cache_service.get("_cache"))): JSON.parse(null) is
\* null and new Map(null) is empty; otherwise the pairs in array order.
Parse(slot) == IF slot.isNull THEN <<>> ELSE slot.json

--------------------------------------------------------------------------
\* The Map _cache: a sequence of <<key, object>> pairs in insertion order.

\* Index of key in the Map, 0 when absent.
IndexOf(cache, key) ==
    IF \E i \in DOMAIN cache : cache[i][1] = key
    THEN CHOOSE i \in DOMAIN cache : cache[i][1] = key
    ELSE 0

\* _cache.has(key)
Has(cache, key) == IndexOf(cache, key) # 0

\* _cache.get(key), for a key the Map has.
MapGet(cache, key) == cache[IndexOf(cache, key)][2]

\* _cache.delete(key)
MapDelete(cache, key) ==
    SelectSeq(cache, LAMBDA p : p[1] # key)

\* _cache.set(key, obj): an existing key keeps its position, a new key is
\* appended.
MapSet(cache, key, obj) ==
    IF Has(cache, key)
    THEN [cache EXCEPT ![IndexOf(cache, key)] = <<key, obj>>]
    ELSE Append(cache, <<key, obj>>)

\* cacheServicePut that keeps what the slot holds beside the Map's entries.
cacheServicePut_Merge(cache) ==
    [isNull |-> FALSE,
     json |-> Stringify(cache \o SelectSeq(Parse(store),
                                           LAMBDA p : ~Has(cache, p[1])))]

\* cacheServicePut: cache_service.put("_cache", JSON.stringify([..._cache.entries()]))
cacheServicePut(cache) == Blob(Stringify(cache))

\* remove(key): _cache.delete(key), then cacheServicePut. The result of a
\* cache operation is the Map it leaves and the number of puts it made.
remove(cache, key) == [cache |-> MapDelete(cache, key), puts |-> 1]

\* get with the expiry comparison off by one: an entry whose age equals the
\* TTL is still returned.
get_LateExpiry(cache, key, ttl, t) ==
    IF Has(cache, key)
    THEN IF ExpireOf(MapGet(cache, key)) + ttl >= t
         THEN [ret |-> ValueOf(MapGet(cache, key)), cache |-> cache,
               puts |-> 0, found |-> "fresh"]
         ELSE [ret |-> Undefined,
               cache |-> MapDelete(cache, key),
               puts |-> 1, found |-> "expired"]
    ELSE [ret |-> Undefined, cache |-> cache, puts |-> 0, found |-> "absent"]

\* get(key) at time t with expiry _time = ttl: the value returned, the Map
\* left behind, the puts made, and which branch was taken (found).
get(cache, key, ttl, t) ==
    IF Has(cache, key)
    THEN IF ExpireOf(MapGet(cache, key)) + ttl > t
         THEN [ret |-> ValueOf(MapGet(cache, key)), cache |-> cache,
               puts |-> 0, found |-> "fresh"]
         ELSE [ret |-> Undefined,
               cache |-> remove(cache, key).cache,
               puts |-> remove(cache, key).puts, found |-> "expired"]
    ELSE [ret |-> Undefined, cache |-> cache, puts |-> 0, found |-> "absent"]

\* The test of the while loop of set() on the entry the iterator yields.
\* Every iteration that goes on deletes the entry it was given, so the
\* iterator's next entry is always the first one left in the Map.
EvictTest(cache, limit, ttl, date) ==
    /\ cache # <<>>
    /\ \/ Len(cache) > limit
       \/ ExpireOf(cache[1][2]) + ttl < date

\* The while loop of set() removing the entry inserted last instead of the
\* one the iterator yields.
RECURSIVE EvictLoop_Newest(_, _, _, _)
EvictLoop_Newest(cache, limit, ttl, date) ==
    IF EvictTest(cache, limit, ttl, date)
    THEN LET r == remove(cache, cache[Len(cache)][1])
             rest == EvictLoop_Newest(r.cache, limit, ttl, date)
         IN [cache |-> rest.cache, puts |-> r.puts + rest.puts]
    ELSE [cache |-> cache, puts |-> 0]

\* The while loop of set(): remove(entry.value[0]) while the test holds.
RECURSIVE EvictLoop(_, _, _, _)
EvictLoop(cache, limit, ttl, date) ==
    IF EvictTest(cache, limit, ttl, date)
    THEN LET r == remove(cache, cache[1][1])
             rest == EvictLoop(r.cache, limit, ttl, date)
         IN [cache |-> rest.cache, puts |-> r.puts + rest.puts]
    ELSE [cache |-> cache, puts |-> 0]

\* set(key, value): date = Date.now() before the loop, the entry's expire is
\* a second Date.now() (ins) after it, then cacheServicePut.
set(cache, key, value, limit, ttl, date, ins) ==
    LET ev == EvictLoop(cache, limit, ttl, date)
    IN [cache |-> MapSet(ev.cache, key, [value |-> value, expire |-> ins]),
        puts |-> ev.puts + 1]

\* results[0]
First(results) == IF results = <<>> THEN Undefined ELSE results[1]

\* results.join(";")
RECURSIVE Join(_)
Join(results) ==
    IF results = <<>> THEN ""
    ELSE IF Len(results) = 1 THEN results[1]
    ELSE results[1] \o ";" \o Join(Tail(results))

--------------------------------------------------------------------------
\* The wrapped functions. memoize(fn) is generic in fn; the cache is
\* exercised with the two shapes of result the script wraps: results[0]
\* (undefined for no match) and results.join(";") ("" for no match), over
\* the sequence of display values the remote search yields for the call.

\* The display values the search behind an argument list yields.
SearchValues(args) ==
    IF args[1] = "q1" THEN <<"x", "y">> ELSE <<>>

\* fn.apply(this, args) for the function wrapper w was built over.
fnApply(w, args) ==
    IF w = "IQL" THEN First(SearchValues(args)) ELSE Join(SearchValues(args))

--------------------------------------------------------------------------
\* The Insight service and the attribute resolver.

\* Result of a JavaScript call: a returned value or an uncaught exception.
Ret(v) == [ok |-> TRUE, val |-> v]
Throw == [ok |-> FALSE, val |-> "TypeError"]

\* GET objectschema/{id}/objecttypes: the object types of each schema.
ObjectTypes(schemaId) ==
    IF schemaId = "10"
    THEN << [id |-> "1", name |-> "Laptop"], [id |-> "2", name |-> "Server"] >>
    ELSE IF schemaId = "20"
    THEN << [id |-> "3", name |-> "Server"] >>
    ELSE <<>>

\* GET objecttype/{id}/attributes: the attributes of each object type.
Attributes(typeId) ==
    IF typeId = "1"
    THEN << [id |-> "11", name |-> "Name"], [id |-> "12", name |-> "Owner"] >>
    ELSE IF typeId = "2"
    THEN << [id |-> "21", name |-> "Name"], [id |-> "22", name |-> "Owner"] >>
    ELSE IF typeId = "3"
    THEN << [id |-> "31", name |-> "Name"], [id |-> "32", name |-> "Owner"] >>
    ELSE <<>>

\* One attribute of an object entry: its objectTypeAttributeId and the
\* displayValue of objectAttributeValues[0].
Attr(id, display) == [objectTypeAttributeId |-> id, displayValue |-> display]

\* GET iql/objects?iql=...: the objectEntries of each search, each entry the
\* sequence of its attributes.
ObjectEntries(iql) ==
    IF iql = "q1"
    THEN << << Attr("21", "srv1"), Attr("22", "Alice") >>,
            << Attr("11", "lap1"), Attr("12", "Bob") >>,
            << Attr("21", "srv2"), Attr("22", "Carol") >> >>
    ELSE IF iql = "q2"
    THEN << << Attr("31", "srv3"), Attr("32", "Dave") >> >>
    ELSE <<>>

KnownSchemas == {"10", "20"}
KnownTypes == {"1", "2", "3"}

\* insightRequest(path) for a path naming a schema or type the service does
\* not have ("objectschema/undefined/objecttypes", "objecttype/null/
\* attributes"): the service answers with an error object, or with an
\* empty list.
UnknownAnswers == {"errorObject", "emptyList"}

\* getObjectTypeIdFromName(name, object_schema_id): for...of over the
\* response (a TypeError when it is not iterable), first type whose name
\* == name, else null.
getObjectTypeIdFromName(name, object_schema_id, unknown) ==
    IF object_schema_id \notin KnownSchemas /\ unknown = "errorObject"
    THEN Throw
    ELSE LET data == ObjectTypes(object_schema_id)
             hits == { i \in DOMAIN data : data[i].name = name }
         IN IF hits = {}
            THEN Ret(Null)
            ELSE Ret(data[CHOOSE i \in hits : \A j \in hits : i <= j].id)

\* getObjectTypeAttributeId(name, object_name, object_schema_id): for...in
\* over the attributes of the resolved type (the keys of an error object
\* match no name), first attribute whose name == name, else null.
getObjectTypeAttributeId(name, object_name, object_schema_id, unknown) ==
    LET t == getObjectTypeIdFromName(object_name, object_schema_id, unknown)
    IN IF ~t.ok THEN Throw
       ELSE LET data == IF t.val \in KnownTypes THEN Attributes(t.val) ELSE <<>>
                hits == { i \in DOMAIN data : data[i].name = name }
            IN IF hits = {}
               THEN Ret(Null)
               ELSE Ret(data[CHOOSE i \in hits : \A j \in hits : i <= j].id)

\* The inner loop of getLazyIQL with a null id matching every attribute.
RECURSIVE MatchingValues_NullMatchesAll(_, _)
MatchingValues_NullMatchesAll(attributes, id) ==
    IF attributes = <<>> THEN <<>>
    ELSE (IF id = Null \/ Head(attributes).objectTypeAttributeId = id
          THEN << Head(attributes).displayValue >> ELSE <<>>)
         \o MatchingValues_NullMatchesAll(Tail(attributes), id)

\* The inner loop of getLazyIQL over one object entry: the display values
\* of its attributes whose objectTypeAttributeId == the resolved id.
RECURSIVE MatchingValues(_, _)
MatchingValues(attributes, id) ==
    IF attributes = <<>> THEN <<>>
    ELSE (IF Head(attributes).objectTypeAttributeId = id
          THEN << Head(attributes).displayValue >> ELSE <<>>)
         \o MatchingValues(Tail(attributes), id)

\* The outer loop of getLazyIQL over the object entries.
RECURSIVE CollectValues(_, _)
CollectValues(entries, id) ==
    IF entries = <<>> THEN <<>>
    ELSE MatchingValues(Head(entries), id) \o CollectValues(Tail(entries), id)

\* getLazyIQL(iql_search, attribute, object_name, object_schema_id)
getLazyIQL(iql_search, attribute, object_name, object_schema_id, unknown) ==
    LET a == getObjectTypeAttributeId(attribute, object_name, object_schema_id,
                                      unknown)
    IN IF ~a.ok THEN Throw
       ELSE Ret(CollectValues(ObjectEntries(iql_search), a.val))

\* _LAZYIQL: return getLazyIQL(iql_search, attribute)[0]. The call passes
\* two arguments; object_name and object_schema_id are undefined in it.
_LAZYIQL(iql_search, attribute, object_name, object_schema_id, unknown) ==
    LET r == getLazyIQL(iql_search, attribute, Undefined, Undefined, unknown)
    IN IF r.ok THEN Ret(First(r.val)) ELSE Throw

\* _LAZYIQL_LIST: return getLazyIQL(iql_search, attribute).join(";")
_LAZYIQL_LIST(iql_search, attribute, object_name, object_schema_id, unknown) ==
    LET r == getLazyIQL(iql_search, attribute, Undefined, Undefined, unknown)
    IN IF r.ok THEN Ret(Join(r.val)) ELSE Throw

\* The entry-point calls a cell makes, and the service's way of answering
\* unknown paths.
Requests ==
    [iql : {"q1", "q2"}, attribute : {"Owner", "Name", "Colour"},
     object_name : {"Server", "Laptop", "Printer"}, schema : {"10", "20"},
     unknown : UnknownAnswers]

NoRequest ==
    [iql |-> "-", attribute |-> "-", object_name |-> "-", schema |-> "-",
     unknown |-> "-"]
NoResult == [fn |-> "-", out |-> Ret(Undefined)]

--------------------------------------------------------------------------
\* State machine.

\* What a step did: the operation, the execution and wrapper it ran on, the
\* key looked up (with the branch get took), the argument of limit/expire,
\* whether fn was invoked, whether the operation threw, the value it
\* returned, the number of cacheServicePut calls it made, and the operation
\* of the step before it when that ran on the same wrapper.
NoKey == <<>>
NoArg == [type |-> "none", val |-> 0]

Event(op, e, w, key, found, arg, invoked, threw, ret, puts) ==
    [op |-> op, e |-> e, w |-> w, key |-> key, found |-> found, arg |-> arg,
     invoked |-> invoked, threw |-> threw, ret |-> ret, puts |-> puts,
     prev |-> IF last.e = e /\ last.w = w THEN last.op ELSE "-"]

InitEvent ==
    [op |-> "init", e |-> "-", w |-> "-", key |-> NoKey, found |-> "-",
     arg |-> NoArg, invoked |-> FALSE, threw |-> FALSE, ret |-> Undefined,
     puts |-> 0, prev |-> "-"]

\* An operation that looks nothing up, takes no argument and returns nothing.
Plain(op, e, w, threw) ==
    Event(op, e, w, NoKey, "-", NoArg, FALSE, threw, Undefined, 0)

\* The closure state memoize() sets up: _cache loaded from the document
\* cache, _limit and _time at their defaults.
NewWrapper(slot) ==
    [cache |-> Parse(slot), limit |-> DefaultLimit, time |-> DefaultTime]

\* A wrapper that has not been built yet.
NoWrapper == [cache |-> <<>>, limit |-> DefaultLimit, time |-> DefaultTime]

Init ==
    /\ store = NoBlob
    /\ now = 0
    /\ pc = [e \in Execs |-> "new"]
    /\ wr = [e \in Execs |-> [w \in Wrappers |-> NoWrapper]]
    /\ last = InitEvent
    /\ steps = 0
    /\ req = NoRequest
    /\ res = NoResult

\* Script load of one execution: var MEMOIZED_IQL = memoize(_LAZYIQL), then
\* var MEMOIZED_IQL_LIST = memoize(_LAZYIQL_LIST). Each reads the slot.
memoize(e) ==
    /\ pc[e] \in {"new", "half"}
    /\ LET w == IF pc[e] = "new" THEN "IQL" ELSE "LIST"
       IN /\ wr' = [wr EXCEPT ![e][w] = NewWrapper(store)]
          /\ last' = Plain("memoize", e, w, FALSE)
    /\ pc' = [pc EXCEPT ![e] = IF pc[e] = "new" THEN "half" ELSE "run"]
    /\ UNCHANGED <<store, now, steps, req, res>>

\* memoized that stores an entry for the key although fn threw.
memoized_CachesFailure(e, w, args) ==
    /\ pc[e] = "run"
    /\ steps' = steps + 1
    /\ LET key == StringifyArgs(args)
           ws == wr[e][w]
           g == get(ws.cache, key, ws.time, now)
       IN IF Truthy(g.ret)
          THEN /\ last' = Event("call", e, w, key, g.found, NoArg,
                                FALSE, FALSE, g.ret, g.puts)
               /\ UNCHANGED <<store, now, pc, wr, req, res>>
          ELSE \E d \in FnDurations :
                 /\ now + d <= MaxTime
                 /\ \/ LET s == set(g.cache, key, Undefined, ws.limit,
                                    ws.time, now + d, now + d)
                       IN /\ wr' = [wr EXCEPT ![e][w].cache = s.cache]
                          /\ store' = cacheServicePut(s.cache)
                          /\ last' = Event("call", e, w, key, g.found, NoArg,
                                           TRUE, TRUE, Undefined,
                                           g.puts + s.puts)
                    \/ LET value == fnApply(w, args)
                           s == set(g.cache, key, value, ws.limit, ws.time,
                                    now + d, now + d)
                       IN /\ wr' = [wr EXCEPT ![e][w].cache = s.cache]
                          /\ store' = cacheServicePut(s.cache)
                          /\ last' = Event("call", e, w, key, g.found, NoArg,
                                           TRUE, FALSE, value, g.puts + s.puts)
                 /\ now' = now + d
                 /\ UNCHANGED <<pc, req, res>>

\* memoized(...args): return get(key) || set(key, fn.apply(this, args)).
\* get runs at the current time; when its result is falsy fn runs (and may
\* throw), and set reads the clock when fn has returned: date for its loop
\* and, within the same clock unit, the expire stamp of the entry.
memoized(e, w, args) ==
    /\ pc[e] = "run"
    /\ steps' = steps + 1
    /\ LET key == StringifyArgs(args)
           ws == wr[e][w]
           g == get(ws.cache, key, ws.time, now)
       IN IF Truthy(g.ret)
          THEN /\ last' = Event("call", e, w, key, g.found, NoArg,
                                FALSE, FALSE, g.ret, g.puts)
               /\ UNCHANGED <<store, now, pc, wr, req, res>>
          ELSE \E d \in FnDurations :
                 /\ now + d <= MaxTime
                 /\ \/ \* fn throws: the exception leaves memoized
                       /\ wr' = [wr EXCEPT ![e][w].cache = g.cache]
                       /\ store' = IF g.puts > 0 THEN cacheServicePut(g.cache)
                                                ELSE store
                       /\ last' = Event("call", e, w, key, g.found, NoArg,
                                        TRUE, TRUE, Undefined, g.puts)
                    \/ \* fn returns value
                       LET value == fnApply(w, args)
                           s == set(g.cache, key, value, ws.limit, ws.time,
                                    now + d, now + d)
                       IN /\ wr' = [wr EXCEPT ![e][w].cache = s.cache]
                          /\ store' = cacheServicePut(s.cache)
                          /\ last' = Event("call", e, w, key, g.found, NoArg,
                                           TRUE, FALSE, value, g.puts + s.puts)
                 /\ now' = now + d
                 /\ UNCHANGED <<pc, req, res>>

\* typeof x
typeof(x) == x.type

\* limit without the typeof test: whatever it is given becomes _limit.
limit_Unchecked(e, w, x) ==
    /\ pc[e] = "run"
    /\ steps' = steps + 1
    /\ wr' = [wr EXCEPT ![e][w].limit = x.val]
    /\ last' = Event("limit", e, w, NoKey, "-", x, FALSE, FALSE, Undefined, 0)
    /\ UNCHANGED <<store, now, pc, req, res>>

\* memoized.limit(limit)
limit(e, w, x) ==
    /\ pc[e] = "run"
    /\ steps' = steps + 1
    /\ IF typeof(x) # "number"
       THEN /\ last' = Event("limit", e, w, NoKey, "-", x, FALSE, TRUE, Undefined, 0)
            /\ UNCHANGED wr
       ELSE /\ wr' = [wr EXCEPT ![e][w].limit = x.val]
            /\ last' = Event("limit", e, w, NoKey, "-", x, FALSE, FALSE, Undefined, 0)
    /\ UNCHANGED <<store, now, pc, req, res>>

\* expire that also stamps every entry of the Map with the current time.
expire_Refreshes(e, w, x) ==
    /\ pc[e] = "run"
    /\ steps' = steps + 1
    /\ IF typeof(x) # "number"
       THEN /\ last' = Event("expire", e, w, NoKey, "-", x, FALSE, TRUE, Undefined, 0)
            /\ UNCHANGED wr
       ELSE /\ wr' = [wr EXCEPT
                        ![e][w].time = x.val,
                        ![e][w].cache =
                            [i \in DOMAIN @ |->
                                <<@[i][1], [@[i][2] EXCEPT !.expire = now]>>]]
            /\ last' = Event("expire", e, w, NoKey, "-", x, FALSE, FALSE, Undefined, 0)
    /\ UNCHANGED <<store, now, pc, req, res>>

\* memoized.expire(time)
expire(e, w, x) ==
    /\ pc[e] = "run"
    /\ steps' = steps + 1
    /\ IF typeof(x) # "number"
       THEN /\ last' = Event("expire", e, w, NoKey, "-", x, FALSE, TRUE, Undefined, 0)
            /\ UNCHANGED wr
       ELSE /\ wr' = [wr EXCEPT ![e][w].time = x.val]
            /\ last' = Event("expire", e, w, NoKey, "-", x, FALSE, FALSE, Undefined, 0)
    /\ UNCHANGED <<store, now, pc, req, res>>

\* flush that clears nothing.
flush_KeepsEntries(e, w) ==
    /\ pc[e] = "run"
    /\ steps' = steps + 1
    /\ last' = Plain("flush", e, w, FALSE)
    /\ UNCHANGED <<store, now, pc, wr, req, res>>

\* memoized.flush(): _cache.clear()
flush(e, w) ==
    /\ pc[e] = "run"
    /\ steps' = steps + 1
    /\ wr' = [wr EXCEPT ![e][w].cache = <<>>]
    /\ last' = Plain("flush", e, w, FALSE)
    /\ UNCHANGED <<store, now, pc, req, res>>

\* The script execution ends; its closures are gone. The next execution
\* in this slot loads the script again.
finish(e) ==
    /\ pc[e] = "run"
    /\ steps' = steps + 1
    /\ pc' = [pc EXCEPT ![e] = "new"]
    /\ wr' = [wr EXCEPT ![e] = [w \in Wrappers |-> NoWrapper]]
    /\ last' = Plain("finish", e, "-", FALSE)
    /\ UNCHANGED <<store, now, req, res>>

\* Time passes between operations.
tick ==
    /\ now < MaxTime
    /\ steps' = steps + 1
    /\ now' = now + 1
    /\ last' = Plain("tick", "-", "-", FALSE)
    /\ UNCHANGED <<store, pc, wr, req, res>>

\* The wrapper's whole interface, exercised by one script execution at a
\* time; executions follow each other and share the document cache.
Solo == {"e1"}

Next ==
    \/ \E e \in Solo : steps < MaxSteps /\ memoize(e)
    \/ \E e \in Solo, w \in Wrappers, args \in ArgLists :
          steps < MaxSteps /\ memoized(e, w, args)
    \/ \E e \in Solo, w \in Wrappers, x \in ConfigInputs :
          steps < MaxSteps /\ limit(e, w, x)
    \/ \E e \in Solo, w \in Wrappers, x \in ConfigInputs :
          steps < MaxSteps /\ expire(e, w, x)
    \/ \E e \in Solo, w \in Wrappers : steps < MaxSteps /\ flush(e, w)
    \/ \E e \in Solo : steps < MaxSteps /\ finish(e)
    \/ steps < MaxSteps /\ tick

Spec == Init /\ [][Next]_vars

\* What the script itself does: concurrent executions (one per cell
\* evaluation), each loading the script and calling the entry points
\* LAZYIQL / LAZYIQL_LIST; limit, expire and flush are never called.
NextConc ==
    \/ \E e \in Execs : steps < MaxStepsConc /\ memoize(e)
    \/ \E e \in Execs, w \in Wrappers, args \in ArgLists :
          steps < MaxStepsConc /\ memoized(e, w, args)
    \/ \E e \in Execs : steps < MaxStepsConc /\ finish(e)
    \/ steps < MaxStepsConc /\ tick

SpecConc == Init /\ [][NextConc]_vars

\* The resolver behind the entry points: one cell evaluation whose lookup
\* misses, so that LAZYIQL / LAZYIQL_LIST return what the wrapped function
\* computes, and the resolver's own functions applied to the same request.
InitIQL ==
    /\ store = NoBlob
    /\ now = 0
    /\ pc = [e \in Execs |-> "new"]
    /\ wr = [e \in Execs |-> [w \in Wrappers |-> NoWrapper]]
    /\ last = InitEvent
    /\ steps = 0
    /\ req \in Requests
    /\ res = NoResult

\* LAZYIQL(iql_search, attribute, object_name, object_schema_id) on a miss
LAZYIQL ==
    /\ res = NoResult
    /\ res' = [fn |-> "LAZYIQL",
               out |-> _LAZYIQL(req.iql, req.attribute, req.object_name,
                                req.schema, req.unknown)]
    /\ UNCHANGED <<store, now, pc, wr, last, steps, req>>

\* LAZYIQL_LIST(iql_search, attribute, object_name, object_schema_id) on a miss
LAZYIQL_LIST ==
    /\ res = NoResult
    /\ res' = [fn |-> "LAZYIQL_LIST",
               out |-> _LAZYIQL_LIST(req.iql, req.attribute, req.object_name,
                                     req.schema, req.unknown)]
    /\ UNCHANGED <<store, now, pc, wr, last, steps, req>>

\* getObjectTypeAttributeId(attribute, object_name, object_schema_id) called
\* with the request's arguments.
ApplyGetObjectTypeAttributeId ==
    /\ res = NoResult
    /\ res' = [fn |-> "getObjectTypeAttributeId",
               out |-> getObjectTypeAttributeId(req.attribute, req.object_name,
                                                req.schema, req.unknown)]
    /\ UNCHANGED <<store, now, pc, wr, last, steps, req>>

\* getLazyIQL(iql_search, attribute, object_name, object_schema_id) called
\* with all four of the request's arguments.
ApplyGetLazyIQL ==
    /\ res = NoResult
    /\ res' = [fn |-> "getLazyIQL",
               out |-> getLazyIQL(req.iql, req.attribute, req.object_name,
                                  req.schema, req.unknown)]
    /\ UNCHANGED <<store, now, pc, wr, last, steps, req>>

NextIQL ==
    \/ LAZYIQL
    \/ LAZYIQL_LIST
    \/ ApplyGetObjectTypeAttributeId
    \/ ApplyGetLazyIQL

SpecIQL == InitIQL /\ [][NextIQL]_vars

--------------------------------------------------------------------------
\* Properties.

\* In a step formula: the closure state of the wrapper the step ran on,
\* before and after the step.
Before == wr[last'.e][last'.w]
After == wr'[last'.e][last'.w]

\* In a step formula: the step is a call of a memoized wrapper.
IsCall == last'.op = "call"

\* In a state formula: the closure state of the wrapper the latest step
\* ran on.
Current == wr[last.e][last.w]

\* Two Maps hold the same keys in the same order with the same value and
\* expire read from each object.
SameEntries(c1, c2) ==
    /\ Len(c1) = Len(c2)
    /\ \A i \in DOMAIN c1 :
          /\ c1[i][1] = c2[i][1]
          /\ ValueOf(c1[i][2]) = ValueOf(c2[i][2])
          /\ ExpireOf(c1[i][2]) = ExpireOf(c2[i][2])

\* C1: when a wrapper is called with an argument list right after a
\* completed call of the same wrapper with the same argument list, and the
\* entry of that argument list is younger than the TTL, the second call does
\* not invoke the underlying function and returns the value the first
\* returned.
C1_SecondCallIsHit ==
    [][ ( /\ last.op = "call" /\ ~last.threw
          /\ IsCall
          /\ last'.e = last.e /\ last'.w = last.w /\ last'.key = last.key
          /\ Has(Before.cache, last'.key)
          /\ now - ExpireOf(MapGet(Before.cache, last'.key)) < Before.time )
        => ( ~last'.invoked /\ last'.ret = last.ret ) ]_vars

\* C2: a call whose key has an entry with now - insertedAt >= ttl invokes
\* the underlying function; when the function returns, the old entry is gone
\* and the Map ends with a new entry for the key that holds the returned
\* value and is stamped with the clock of the insertion, and the store
\* holds that Map; when the function throws, no entry for the key is left.
C2_ExpiredEntryRefetched ==
    [][ ( /\ IsCall
          /\ Has(Before.cache, last'.key)
          /\ now - ExpireOf(MapGet(Before.cache, last'.key)) >= Before.time )
        => ( /\ last'.invoked
             /\ ~last'.threw =>
                  /\ After.cache # <<>>
                  /\ After.cache[Len(After.cache)] =
                        <<last'.key, [value |-> last'.ret, expire |-> now']>>
                  /\ now' >= now
                  /\ ~Has(SubSeq(After.cache, 1, Len(After.cache) - 1), last'.key)
                  /\ SameEntries(Parse(store'), After.cache)
             /\ last'.threw =>
                  /\ ~Has(After.cache, last'.key)
                  /\ ~Has(Parse(store'), last'.key) ) ]_vars

\* C2 witness: a completed call found its key expired while the Map held
\* another entry as well.
C2_Witness ==
    /\ last.op = "call" /\ last.found = "expired"
    /\ last.invoked /\ ~last.threw
    /\ Len(Current.cache) >= 2

\* C3: after a completed call the wrapper's Map holds at most _limit
\* entries.
C3_SizeWithinLimit ==
    (last.op = "call" /\ ~last.threw) => Len(Current.cache) <= Current.limit

\* C4: flush leaves the wrapper's Map empty, and a call of the wrapper right
\* after its flush finds no entry and invokes the underlying function.
C4_FlushThenMiss ==
    [][ /\ last'.op = "flush" => After.cache = <<>>
        /\ (IsCall /\ last'.prev = "flush") =>
              (last'.invoked /\ last'.found = "absent") ]_vars

\* C4 witness: a call right after a flush invoked the underlying function
\* (which threw) although the store still holds an entry for its key.
C4_Witness ==
    /\ last.op = "call" /\ last.prev = "flush"
    /\ last.invoked /\ last.threw
    /\ Has(Parse(store), last.key)

\* C5: whenever a call or a flush changes the wrapper's Map, the store then
\* holds the serialization of that Map, and a wrapper built from the store
\* starts with the same entries.
C5_StoreMirrorsCache ==
    [][ ( last'.op \in {"call", "flush"} /\ After.cache # Before.cache )
        => ( /\ store' = Blob(Stringify(After.cache))
             /\ SameEntries(NewWrapper(store').cache, After.cache) ) ]_vars

\* C6: on a miss LAZYIQL returns the first, and LAZYIQL_LIST the
\* ";"-joined list, of the values getLazyIQL yields for all four of the
\* caller's arguments.
C6_AllFourArguments ==
    LET r == getLazyIQL(req.iql, req.attribute, req.object_name, req.schema,
                        req.unknown)
    IN /\ res.fn = "LAZYIQL" =>
            res.out = (IF r.ok THEN Ret(First(r.val)) ELSE Throw)
       /\ res.fn = "LAZYIQL_LIST" =>
            res.out = (IF r.ok THEN Ret(Join(r.val)) ELSE Throw)

\* C7: limit(x) and expire(x) throw exactly when x is not a number, and then
\* change neither a wrapper nor the store; with a number they set _limit
\* (resp. _time) of their wrapper and nothing else. A later call decides
\* freshness with the wrapper's current _time, and a completed miss leaves
\* at most the current _limit entries beside the one it inserts.
C7_ConfigTypeChecked ==
    [][ /\ last'.op \in {"limit", "expire"} =>
              /\ last'.threw <=> (last'.arg.type # "number")
              /\ last'.threw => (wr' = wr /\ store' = store)
              /\ (~last'.threw /\ last'.op = "limit") =>
                    /\ wr' = [wr EXCEPT ![last'.e][last'.w].limit = last'.arg.val]
                    /\ store' = store
              /\ (~last'.threw /\ last'.op = "expire") =>
                    /\ wr' = [wr EXCEPT ![last'.e][last'.w].time = last'.arg.val]
                    /\ store' = store
        /\ (IsCall /\ Has(Before.cache, last'.key)) =>
              ( last'.invoked <=>
                  ~( /\ ExpireOf(MapGet(Before.cache, last'.key)) + Before.time > now
                     /\ Truthy(ValueOf(MapGet(Before.cache, last'.key))) ) )
        /\ (IsCall /\ last'.invoked /\ ~last'.threw) =>
              Len(After.cache) <= Before.limit + 1 ]_vars

\* C7 witness: a call right after a successful expire(1) found its key
\* expired under the newly set _time.
C7_Witness ==
    /\ last.op = "call" /\ last.prev = "expire"
    /\ last.found = "expired" /\ last.invoked /\ ~last.threw
    /\ Current.time = 1

\* C8: a completed miss leaves in the store no entry that the store held
\* before and the calling wrapper's Map did not: what other invocations
\* wrote since the wrapper loaded is overwritten.
C8_MissOverwritesStore ==
    [][ (IsCall /\ last'.invoked /\ ~last'.threw) =>
          \A i \in DOMAIN Parse(store) :
             LET k == Parse(store)[i][1]
             IN (~Has(Before.cache, k) /\ k # last'.key)
                  => ~Has(Parse(store'), k) ]_vars

\* C8 witness: both executions are running, each has inserted an entry the
\* other does not hold, and the store holds only the entry of the one that
\* wrote last.
C8_LostUpdate ==
    /\ pc["e1"] = "run" /\ pc["e2"] = "run"
    /\ last.op = "call" /\ last.e = "e2" /\ last.invoked /\ ~last.threw
    /\ \E w1 \in Wrappers, k1 \in {StringifyArgs(a) : a \in ArgLists} :
          /\ k1 # last.key
          /\ Has(wr["e1"][w1].cache, k1)
          /\ ~Has(wr["e1"][w1].cache, last.key)
          /\ ~Has(Current.cache, k1)
          /\ Has(Parse(store), last.key)
          /\ ~Has(Parse(store), k1)

C10_HitChangesNothing ==
    [][ ( /\ IsCall
          /\ Has(Before.cache, last'.key)
          /\ now - ExpireOf(MapGet(Before.cache, last'.key)) < Before.time
          /\ ValueOf(MapGet(Before.cache, last'.key)) # Undefined )
        => ( /\ ~last'.invoked
             /\ wr' = wr
             /\ store' = store
             /\ last'.puts = 0 ) ]_vars

\* In a step formula of a call: the Map as get leaves it (the looked-up key
\* removed when it was found expired), and the number of entries the loop
\* of set removed, read off the writes to the store: one per removal, one
\* for get's removal, one for the insertion.
AfterGet ==
    IF last'.found = "expired" THEN MapDelete(Before.cache, last'.key)
                               ELSE Before.cache
Evicted == last'.puts - 1 - (IF last'.found = "expired" THEN 1 ELSE 0)

\* C11: the entries a completed miss removes before it inserts are the
\* first ones of the Map's insertion order: the Map it leaves is the Map
\* without its first Evicted entries, with the new entry set. When the Map
\* holds more than _limit entries at least one is removed, so an entry
\* removed for capacity never leaves behind an entry that precedes it in
\* insertion order.
C11_EvictsFromFront ==
    [][ (IsCall /\ last'.invoked /\ ~last'.threw) =>
          /\ Evicted \in 0..Len(AfterGet)
          /\ Len(AfterGet) > Before.limit => Evicted >= 1
          /\ After.cache =
                MapSet(SubSeq(AfterGet, Evicted + 1, Len(AfterGet)),
                       last'.key, [value |-> last'.ret, expire |-> now']) ]_vars

\* C11 witness: a completed miss on a wrapper of limit 1 removed one entry
\* and left two: the Map held two entries, the first was removed for
\* capacity and the second is still there, before the new entry.
C11_Witness ==
    /\ last.op = "call" /\ last.invoked /\ ~last.threw
    /\ last.found # "expired" /\ last.puts = 2
    /\ Current.limit = 1 /\ Len(Current.cache) = 2
    /\ Current.cache[2][1] = last.key

\* C12: when a completed miss finishes, the first entry of the Map other
\* than the one just set is younger than _time at that moment: a lookup at
\* that time would not treat it as expired.
C12_ScanUsesLookupRule ==
    [][ (IsCall /\ last'.invoked /\ ~last'.threw) =>
          LET old == SelectSeq(After.cache, LAMBDA p : p[1] # last'.key)
          IN old # <<>> => now' - ExpireOf(old[1][2]) < Before.time ]_vars

\* C13: every call decides between fresh, expired and absent as get does on
\* the content the store holds when the call starts.
C13_LookupReadsStore ==
    [][ IsCall =>
          last'.found = get(Parse(store), last'.key, Before.time, now).found ]_vars

\* In a step formula: every entry of the Map is younger than ttl when the
\* step ends.
NothingExpired(cache, ttl) ==
    \A i \in DOMAIN cache : now' - ExpireOf(cache[i][2]) < ttl

\* C14: when, in one execution, a completed miss of MEMOIZED_IQL for A is
\* followed by a completed miss of MEMOIZED_IQL_LIST for another argument
\* list B, with no entry of either wrapper expired and fewer than _limit
\* entries in the Map, the store then holds entries for both A and B.
C14_BothWrappersKept ==
    [][ ( /\ last.op = "call" /\ last.w = "IQL"
          /\ last.invoked /\ ~last.threw
          /\ IsCall /\ last'.e = last.e /\ last'.w = "LIST"
          /\ last'.invoked /\ ~last'.threw
          /\ last'.key # last.key
          /\ NothingExpired(wr[last.e]["IQL"].cache, wr[last.e]["IQL"].time)
          /\ NothingExpired(Before.cache, Before.time)
          /\ Len(Before.cache) < Before.limit )
        => ( /\ Has(Parse(store'), last.key)
             /\ Has(Parse(store'), last'.key) ) ]_vars

\* C15: in every wrapper's Map the expire stamps never decrease along the
\* Map's order: each entry was stamped no later than every entry after it.
C15_OrderAgreesWithAge ==
    \A e \in Execs, w \in Wrappers :
        \A i, j \in DOMAIN wr[e][w].cache :
            i < j => ExpireOf(wr[e][w].cache[i][2])
                        <= ExpireOf(wr[e][w].cache[j][2])

\* C16: a call whose underlying function throws lets the exception out and
\* returns nothing; it inserts nothing: the wrapper's Map is what get left,
\* no other wrapper changes, and the store is written only with that Map
\* when get removed the expired entry of the key, so the store gains no
\* entry for the key, and the Map holds no truthy value for it. A call of
\* the same wrapper with the same key right after it invokes the underlying
\* function again, as does every call whose key has no truthy value in the
\* wrapper's Map.
C16_FailureStoresNothing ==
    [][ /\ (IsCall /\ last'.threw) =>
              /\ last'.invoked
              /\ last'.ret = Undefined
              /\ wr' = [wr EXCEPT ![last'.e][last'.w].cache = AfterGet]
              /\ Has(After.cache, last'.key) =>
                    /\ Has(Before.cache, last'.key)
                    /\ MapGet(After.cache, last'.key)
                          = MapGet(Before.cache, last'.key)
              /\ store' = IF last'.found = "expired"
                          THEN Blob(Stringify(AfterGet)) ELSE store
              /\ last'.found = "expired" => ~Has(Parse(store'), last'.key)
              /\ last'.found = "absent" =>
                    (Has(Parse(store'), last'.key)
                        => Has(Parse(store), last'.key))
              /\ ~( /\ Has(After.cache, last'.key)
                    /\ Truthy(ValueOf(MapGet(After.cache, last'.key))) )
        /\ ( /\ last.op = "call" /\ last.threw
             /\ IsCall /\ last'.e = last.e /\ last'.w = last.w
             /\ last'.key = last.key )
           => last'.invoked
        /\ ( /\ IsCall
             /\ ~( /\ Has(Before.cache, last'.key)
                   /\ Truthy(ValueOf(MapGet(Before.cache, last'.key))) ) )
           => last'.invoked ]_vars

\* C16 witness: the underlying function threw in a call that had found its
\* key expired; the entry is gone from the Map and from the store, which
\* both still hold another entry.
C16_Witness ==
    /\ last.op = "call" /\ last.threw /\ last.invoked
    /\ last.found = "expired"
    /\ ~Has(Current.cache, last.key)
    /\ ~Has(Parse(store), last.key)
    /\ Current.cache # <<>>
    /\ SameEntries(Parse(store), Current.cache)

C18_UnknownAttributeYieldsEmpty ==
    LET t == getObjectTypeIdFromName(req.object_name, req.schema, req.unknown)
        notFound ==
            /\ t.ok /\ t.val \in KnownTypes
            /\ \A i \in DOMAIN Attributes(t.val) :
                  Attributes(t.val)[i].name # req.attribute
    IN notFound =>
          /\ res.fn = "getObjectTypeAttributeId" => res.out = Ret(Null)
          /\ res.fn = "getLazyIQL" => res.out = Ret(<<>>)

\* C18 witness: getLazyIQL has run for the attribute "Colour" of the
\* object type Server of schema "10", which has no such attribute, over a
\* search that finds three objects, and returned the empty sequence.
C18_Witness ==
    /\ res.fn = "getLazyIQL"
    /\ req.iql = "q1" /\ req.attribute = "Colour"
    /\ req.object_name = "Server" /\ req.schema = "10"
    /\ Len(ObjectEntries(req.iql)) = 3
    /\ res.out = Ret(<<>>)

====
